---- MODULE Spec2Model ----
(***************************************************************************)
(* A model of QA/run_shap.py: the Shapley attribution driver of a          *)
(* question-answering model.                                               *)
(*                                                                         *)
(*   Spec      one single-process run of main(): parse the arguments, then *)
(*             either ig_analyze (--do_vis) or shap_interp.                *)
(*   MaskSpec  run_shap calling predict_with_mask on the masks that the    *)
(*             Shapley estimator asks for.                                 *)
(*   DistSpec  several processes of a distributed launch running main(),   *)
(*             FairDistSpec the same with every process kept running.      *)
(*                                                                         *)
(* interp_dir and visual_dir are two distinct paths; output_dir, which no   *)
(* step reads back, is left out.  Python's 0-based indexes are kept: feature i of the list   *)
(* 0-based indexes are kept: feature i of the list is features[i + 1].     *)
(***************************************************************************)
EXTENDS Integers, Sequences, FiniteSets, TLC

\* ------------------------------------------------------------------ bounds
MaxExamples == 2     \* examples of the dataset
Window      == 2     \* tokens one feature holds (max_seq_length less the query)
MaxBatch    == 2     \* eval batch size the command line may configure
MaxLen      == 3     \* tokens of the input run_shap perturbs
MaxCalls    == 2     \* score_fn calls followed in one run_shap
NProcs      == 3     \* processes of the distributed launch
MaxRank     == 1     \* largest local_rank of a process

QasIds   == { <<"a">>, <<"b", "-", "c">> }
Vocab    == 1..3
None     == "None"

VARIABLES
    \* --- main(), single process
    pc,               \* position of the process in main / ig_analyze / shap_interp
    args,             \* parsed command line: do_vis, eval_batch_size, visual_dir
    argv,             \* the command line as it was given (never assigned)
    error,            \* the exception that ended the run, or None
    interp_exists,    \* os.path.exists(args.interp_dir)
    interp_files,     \* file name -> content, the files of interp_dir
    interp_init,      \* the file names of interp_dir when the run started
    visual_exists,    \* os.path.exists(args.visual_dir)
    visual_files,     \* the files of visual_dir
    visual_init,      \* visual_dir (exists, files) when the run started
    visual_touched,   \* some operation of the run acted on visual_dir
    model,            \* the model from_pretrained loaded, NoModel before
    examples,         \* load_and_cache_examples: the examples
    features,         \* load_and_cache_examples: the features
    loader,           \* the batches of the DataLoader still to come
    batch,            \* feature indexes of the batch in hand
    batch_out,        \* what predict_and_run_shap returned for the batch
    all_predictions,  \* shap_interp's list of batch predictions
    log,              \* what the run did to the model and to interp_dir, in order
    filenames,        \* ig_analyze's sorted listing
    visualized,       \* the files given to visualize_token_attributions, in order
    returned,         \* what main returned
    \* --- run_shap / predict_with_mask
    mask_token_id,    \* tokenizer.mask_token_id
    full_input_ids,   \* the (1, L) tensor run_shap popped from the inputs
    n_tokens,         \* len(feature.tokens)
    probe_calls,      \* the (active_mask, input_ids) of every probe_forward call
    \* --- distributed launch
    local_rank,       \* process -> args.local_rank
    ppc,              \* process -> position in main
    at_barrier        \* the processes inside torch.distributed.barrier()

mainVars == << pc, args, argv, error, interp_exists, interp_files, interp_init,
               visual_init,
               visual_exists, visual_files, visual_touched,
               model, examples, features, loader, batch, batch_out,
               all_predictions, log, filenames, visualized, returned >>
maskVars == << mask_token_id, full_input_ids, n_tokens, probe_calls >>
distVars == << local_rank, ppc, at_barrier >>
vars     == << mainVars, maskVars, distVars >>

\* ----------------------------------------------------------------- helpers
Range(s) == { s[i] : i \in DOMAIN s }

Min(a, b) == IF a < b THEN a ELSE b

\* All orders in which the elements of a finite set can be listed.
Perms(S) == { s \in [1..Cardinality(S) -> S] : Range(s) = S }

Digits == << "0", "1", "2", "3", "4", "5", "6", "7", "8", "9" >>

IsDigit(c) == \E d \in 1..10 : Digits[d] = c

DigitValue(c) == (CHOOSE d \in 1..10 : Digits[d] = c) - 1

\* str(n) of a non-negative int, as f'{n}' formats it.
RECURSIVE IntToStr(_)
IntToStr(n) ==
    IF n < 10 THEN << Digits[n + 1] >>
    ELSE IntToStr(n \div 10) \o << Digits[(n % 10) + 1] >>

\* int(s) of a string of decimal digits.
RECURSIVE StrToInt(_)
StrToInt(s) ==
    IF Len(s) = 1 THEN DigitValue(s[1])
    ELSE 10 * StrToInt(SubSeq(s, 1, Len(s) - 1)) + DigitValue(s[Len(s)])

\* Whether int(s) succeeds.
IsIntStr(s) == Len(s) >= 1 /\ \A i \in 1..Len(s) : IsDigit(s[i])

\* x.split('-')[0]: the part of x before its first '-', all of x without one.
SplitDashFirst(x) ==
    IF \E i \in 1..Len(x) : x[i] = "-"
    THEN SubSeq(x, 1, (CHOOSE i \in 1..Len(x) :
                          x[i] = "-" /\ \A j \in 1..(i - 1) : x[j] # "-") - 1)
    ELSE x

\* ------------------------------------------------- predict_with_mask, run_shap
\* Faulty variant: line 77 left out, every position masked.
predict_with_mask_all_masked(active_mask, mtid, full) ==
    [ r \in 1..Len(full) |-> [ c \in 1..Len(full[r]) |-> mtid ] ]

\* The input_ids predict_with_mask hands to model.probe_forward: a tensor of
\* the shape of full_input_ids filled with the mask token, whose row 0 then
\* takes full_input_ids' entries where active_mask == 1.
predict_with_mask(active_mask, mtid, full) ==
    LET ones == [ r \in 1..Len(full) |-> [ c \in 1..Len(full[r]) |-> mtid ] ]
    IN  [ ones EXCEPT ![1] =
            [ c \in 1..Len(full[1]) |->
                IF active_mask[c] = 1 THEN full[1][c] ELSE ones[1][c] ] ]

\* ------------------------------------------------------------ file names
BinSuffix == << ".", "b", "i", "n" >>

\* Faulty variant: the name without the example index.
DumpFileNameNoIndex(feature) == feature.qas_id \o BinSuffix

\* f'{feature.example_index}-{feature.qas_id}.bin'
DumpFileName(feature) ==
    IntToStr(feature.example_index) \o << "-" >> \o feature.qas_id \o BinSuffix

\* Faulty variant: the key taken from the first character alone, which
\* orders the names as strings ('10-...' before '2-...').
SortKeyFirstDigit(x) == DigitValue(SplitDashFirst(x)[1])

\* key=lambda x: int(x.split('-')[0])
SortKey(x) == StrToInt(SplitDashFirst(x))

\* Whether the key of x can be computed (int() raises ValueError otherwise).
SortKeyOk(x) == IsIntStr(SplitDashFirst(x))

\* filenames.sort(key=...): a stable sort by SortKey, as insertion from the
\* left, an element going after every element whose key is not larger.
RECURSIVE InsertByKey(_, _)
InsertByKey(sorted, x) ==
    IF sorted = << >> THEN << x >>
    ELSE IF SortKey(sorted[Len(sorted)]) <= SortKey(x) THEN Append(sorted, x)
    ELSE Append(InsertByKey(SubSeq(sorted, 1, Len(sorted) - 1), x),
                sorted[Len(sorted)])

RECURSIVE SortByKey(_)
SortByKey(s) ==
    IF s = << >> THEN << >>
    ELSE InsertByKey(SortByKey(SubSeq(s, 1, Len(s) - 1)), s[Len(s)])

\* ----------------------------------------------------------------- dataset
\* load_and_cache_examples(args, tokenizer, evaluate=True, output_examples=True):
\* an example is cut into windows of at most Window tokens, one feature per
\* window, each feature carrying its example's index and qas_id.
MaxDocLen == 2 * Window

SeqsUpTo(S, n) == UNION { [1..k -> S] : k \in 0..n }

ExampleSets == SeqsUpTo([ qas_id : QasIds, doc_len : 1..MaxDocLen ], MaxExamples)

NumSpans(example) == (example.doc_len + Window - 1) \div Window

SpansOf(example, index) ==
    [ j \in 1..NumSpans(example) |->
        [ example_index |-> index,
          qas_id        |-> example.qas_id,
          tokens        |-> [ k \in 1..Min(Window, example.doc_len - (j - 1) * Window)
                                |-> "tok" ] ] ]

RECURSIVE custom_squad_convert_examples_to_features(_, _)
custom_squad_convert_examples_to_features(exs, n) ==
    IF n = 0 THEN << >>
    ELSE custom_squad_convert_examples_to_features(exs, n - 1) \o SpansOf(exs[n], n - 1)

\* -------------------------------------------------------------- shap_interp
\* Faulty variant: the configured batch size kept.
EvalBatchSizeKept(configured) == configured

\* args.eval_batch_size = 1

EvalBatchSize(configured) == 1

\* Faulty variant: the indexes n-1 .. 0.
ReverseSampler(n) == [ i \in 1..n |-> n - i ]

\* SequentialSampler(dataset): the indexes 0 .. n-1 in order.

SequentialSampler(n) == [ i \in 1..n |-> i - 1 ]

\* DataLoader(dataset, sampler, batch_size): the sampler's indexes cut into
\* consecutive batches of batch_size, the last one possibly shorter.
RECURSIVE DataLoader(_, _)
DataLoader(sampler, batch_size) ==
    IF sampler = << >> THEN << >>
    ELSE LET n == Min(batch_size, Len(sampler))
         IN  << SubSeq(sampler, 1, n) >>
             \o DataLoader(SubSeq(sampler, n + 1, Len(sampler)), batch_size)

\* Faulty variant: no assertion.
OneToOneUnchecked(exs, feats) == TRUE

\* assert len(examples) == len(features)

OneToOne(exs, feats) == Len(exs) = Len(feats)

\* Faulty variant: the attribution saved whole.
TruncateNot(attribution, actual_len) == attribution

\* attribution[:actual_len]

Truncate(attribution, actual_len) ==
    SubSeq(attribution, 1, Min(actual_len, Len(attribution)))

\* The record dump_shap_info saves for one (example, feature, prelim_result,
\* attribution) of the batch.
DumpRecord(example, feature, predictions, prelim_result, attribution) ==
    [ example       |-> example,
      feature       |-> feature,
      prediction    |-> predictions[example.qas_id],
      prelim_result |-> prelim_result,
      attribution   |-> Truncate(attribution, Len(feature.tokens)) ]

\* torch.save(record, filename): the file is created or replaced.
Save(files, filename, record) ==
    [ f \in DOMAIN files \cup { filename } |->
        IF f = filename THEN record ELSE files[f] ]

\* dump_shap_info's loop over zip(examples, features, prelim_results,
\* torch.unbind(attributions)), its first n rounds applied to files.
RECURSIVE dump_shap_info(_, _, _, _, _, _, _)
dump_shap_info(files, exs, feats, predictions, prelims, attributions, n) ==
    IF n = 0 THEN files
    ELSE Save(dump_shap_info(files, exs, feats, predictions, prelims, attributions, n - 1),
              DumpFileName(feats[n]),
              DumpRecord(exs[n], feats[n], predictions, prelims[n], attributions[n]))

ZipLen(a, b, c, d) == Min(Min(Len(a), Len(b)), Min(Len(c), Len(d)))

\* merge_predictions: the batches' dictionaries merged into one.
RECURSIVE merge_predictions(_)
merge_predictions(preds) ==
    IF preds = << >> THEN << >>
    ELSE LET rest == merge_predictions(SubSeq(preds, 1, Len(preds) - 1))
             last == preds[Len(preds)]
         IN  [ q \in DOMAIN rest \cup DOMAIN last |->
                 IF q \in DOMAIN last THEN last[q] ELSE rest[q] ]

\* hotpot_evaluate(examples[:len(all_predictions)], all_predictions)
hotpot_evaluate(exs, merged) ==
    [ examples    |-> SubSeq(exs, 1, Min(Len(exs), Cardinality(DOMAIN merged))),
      predictions |-> merged ]

\* ------------------------------------------------------------------- _mkdir_f
\* if os.path.exists(prefix): shutil.rmtree(prefix); os.makedirs(prefix)
_mkdir_f(exists, files) ==
    LET removed == IF exists THEN [ exists |-> FALSE, files |-> {} ]
                             ELSE [ exists |-> exists, files |-> files ]
    IN  [ exists |-> TRUE, files |-> removed.files ]

\* ------------------------------------------------------------ main, one process
\* Faulty variant: shap_interp whatever the flag.
MainBranchInterp(do_vis) == "shap_interp"

\* if args.do_vis: ig_analyze(...) else: ... shap_interp(...)

MainBranch(do_vis) == IF do_vis THEN "ig_analyze" ELSE "shap_interp"

\* Python's None as a returned value; the content of a file an earlier run saved.
NoneValue == [ none |-> TRUE ]
PriorContent == [ prior |-> TRUE ]

\* The loaded checkpoint, in eval mode with gradients off, is a fixed function:
\* a question has one answer, AnswerOf, and the attribution tensor run_shap
\* computes with the model has `extra` entries more than the feature has tokens.
NoModel == [ loaded |-> FALSE ]
Checkpoints == [ loaded : { TRUE }, extra : { 0, 1 } ]
AnswerOf(qas_id) == << "answer to" >> \o qas_id

NoBatchOut == [ predictions |-> << >>, prelim_results |-> << >>, importances |-> << >> ]

\* Artifacts an earlier run of shap_interp left in interp_dir.
PriorFeatures ==
    { [ example_index |-> 2,  qas_id |-> << "a" >> ],
      [ example_index |-> 10, qas_id |-> << "a" >> ],
      [ example_index |-> 10, qas_id |-> << "b", "-", "c" >> ] }

PriorNames == { DumpFileName(f) : f \in PriorFeatures }

MaskIdle ==
    /\ mask_token_id = 0
    /\ full_input_ids = << >>
    /\ n_tokens = 0
    /\ probe_calls = << >>

DistIdle ==
    /\ local_rank = << >>
    /\ ppc = << >>
    /\ at_barrier = {}

MainIdle ==
    /\ args = [ do_vis |-> FALSE, eval_batch_size |-> 1, visual_dir |-> None ]
    /\ argv = args
    /\ error = None
    /\ interp_exists = FALSE
    /\ interp_files = << >>
    /\ interp_init = {}
    /\ visual_exists = FALSE
    /\ visual_files = {}
    /\ visual_init = [ exists |-> FALSE, files |-> {} ]
    /\ visual_touched = FALSE
    /\ model = NoModel
    /\ examples = << >>
    /\ features = << >>
    /\ loader = << >>
    /\ batch = << >>
    /\ batch_out = NoBatchOut
    /\ all_predictions = << >>
    /\ log = << >>
    /\ filenames = << >>
    /\ visualized = << >>
    /\ returned = << >>

Init ==
    /\ pc = "start"
    /\ args \in [ do_vis : BOOLEAN, eval_batch_size : 1..MaxBatch,
                  visual_dir : { None, "visual_dir" } ]
    /\ argv = args
    /\ error = None
    /\ interp_exists \in BOOLEAN
    /\ interp_files \in
         IF interp_exists
         THEN UNION { [ S -> { PriorContent } ] : S \in SUBSET PriorNames }
         ELSE { << >> }
    /\ interp_init = DOMAIN interp_files
    /\ visual_exists \in IF args.visual_dir = None THEN { FALSE } ELSE BOOLEAN
    /\ visual_files \in IF visual_exists THEN { {}, { << "o", "l", "d" >> } } ELSE { {} }
    /\ visual_init = [ exists |-> visual_exists, files |-> visual_files ]
    /\ visual_touched = FALSE
    /\ model = NoModel
    /\ examples = << >>
    /\ features = << >>
    /\ loader = << >>
    /\ batch = << >>
    /\ batch_out = NoBatchOut
    /\ all_predictions = << >>
    /\ log = << >>
    /\ filenames = << >>
    /\ visualized = << >>
    /\ returned = << >>
    /\ MaskIdle
    /\ DistIdle

Fails(e) == pc' = "failed" /\ error' = e

\* main, lines 252-293: the arguments are parsed, the device and the logging
\* set up, config and tokenizer loaded (local_rank is -1: no barrier).
ParseArgs ==
    /\ pc = "start"
    /\ pc' = "branch"
    /\ UNCHANGED << args, error, interp_exists, interp_files, interp_init, argv, visual_init,
                    visual_exists, visual_files, visual_touched,
                    model, examples, features, loader, batch,
                    batch_out, all_predictions, log, filenames, visualized,
                    returned >>
    /\ UNCHANGED << maskVars, distVars >>

MainDoVis ==
    /\ pc = "branch"
    /\ MainBranch(args.do_vis) = "ig_analyze"
    /\ pc' = "ig_listdir"
    /\ UNCHANGED << args, error, interp_exists, interp_files, interp_init, argv, visual_init,
                    visual_exists, visual_files, visual_touched,
                    model, examples, features, loader, batch,
                    batch_out, all_predictions, log, filenames, visualized,
                    returned >>
    /\ UNCHANGED << maskVars, distVars >>

\* model = ProbeRobertaForQuestionAnswering.from_pretrained(checkpoint)
MainLoadCheckpoint ==
    /\ pc = "branch"
    /\ MainBranch(args.do_vis) = "shap_interp"
    /\ model' \in Checkpoints
    /\ pc' = "si_load"
    /\ UNCHANGED << args, error, interp_exists, interp_files, interp_init, argv, visual_init,
                    visual_exists, visual_files, visual_touched,
                    examples, features, loader, batch,
                    batch_out, all_predictions, log, filenames, visualized,
                    returned >>
    /\ UNCHANGED << maskVars, distVars >>

\* ---------------------------------------------------------------- ig_analyze
\* filenames = os.listdir(args.interp_dir); filenames.sort(key=...)
\* os.listdir gives the names in an arbitrary order.
IgListdir ==
    /\ pc = "ig_listdir"
    /\ IF ~interp_exists
       THEN Fails("FileNotFoundError") /\ UNCHANGED filenames
       ELSE \E order \in Perms(DOMAIN interp_files) :
              IF \E i \in 1..Len(order) : ~SortKeyOk(order[i])
              THEN Fails("ValueError") /\ UNCHANGED filenames
              ELSE /\ filenames' = SortByKey(order)
                   /\ pc' = "ig_mkdir"
                   /\ UNCHANGED error
    /\ UNCHANGED << args, interp_exists, interp_files, interp_init, argv, visual_init,
                    visual_exists, visual_files, visual_touched,
                    model, examples, features, loader, batch,
                    batch_out, all_predictions, log, visualized, returned >>
    /\ UNCHANGED << maskVars, distVars >>

\* _mkdir_f(args.visual_dir); os.path.exists(None) raises TypeError.
IgMkdir ==
    /\ pc = "ig_mkdir"
    /\ IF args.visual_dir = None
       THEN /\ Fails("TypeError")
            /\ UNCHANGED << visual_exists, visual_files, visual_touched >>
       ELSE LET made == _mkdir_f(visual_exists, visual_files)
            IN  /\ visual_exists' = made.exists
                /\ visual_files' = made.files
                /\ visual_touched' = TRUE
                /\ pc' = "ig_loop"
                /\ UNCHANGED error
    /\ UNCHANGED << args, interp_exists, interp_files, interp_init, argv, visual_init,
                    model, examples, features, loader, batch,
                    batch_out, all_predictions, log, filenames, visualized,
                    returned >>
    /\ UNCHANGED << maskVars, distVars >>

\* One round of the loop: torch.load of the next file, then
\* visualize_token_attributions, which writes its page into visual_dir.
IgVisualize ==
    /\ pc = "ig_loop"
    /\ Len(visualized) < Len(filenames)
    /\ LET fname == filenames[Len(visualized) + 1]
       IN  IF fname \notin DOMAIN interp_files
           THEN Fails("FileNotFoundError")
                /\ UNCHANGED << visualized, visual_files >>
           ELSE /\ visualized' = Append(visualized, fname)
                /\ visual_files' = visual_files \cup { fname }
                /\ UNCHANGED << pc, error >>
    /\ UNCHANGED << args, interp_exists, interp_files, interp_init, argv, visual_init,
                    visual_exists, visual_touched,
                    model, examples, features, loader, batch,
                    batch_out, all_predictions, log, filenames, returned >>
    /\ UNCHANGED << maskVars, distVars >>

\* The loop is over; ig_analyze returns, and main returns None.
IgReturn ==
    /\ pc = "ig_loop"
    /\ Len(visualized) = Len(filenames)
    /\ pc' = "done"
    /\ returned' = << NoneValue >>
    /\ UNCHANGED << args, error, interp_exists, interp_files, interp_init, argv, visual_init,
                    visual_exists, visual_files, visual_touched,
                    model, examples, features, loader, batch,
                    batch_out, all_predictions, log, filenames, visualized >>
    /\ UNCHANGED << maskVars, distVars >>

\* --------------------------------------------------------------- shap_interp
\* Lines 159-175: interp_dir is made, the dataset loaded, the one-to-one
\* assertion checked, the batch size forced and the loader built.
SiLoad ==
    /\ pc = "si_load"
    /\ interp_exists' = TRUE
    /\ \E exs \in ExampleSets :
         LET feats == custom_squad_convert_examples_to_features(exs, Len(exs))
         IN  /\ examples' = exs
             /\ features' = feats
             /\ IF ~OneToOne(exs, feats)
                THEN Fails("AssertionError: one to one") /\ UNCHANGED << args, loader >>
                ELSE /\ args' = [ args EXCEPT !.eval_batch_size = EvalBatchSize(@) ]
                     /\ loader' = DataLoader(SequentialSampler(Len(feats)),
                                             args'.eval_batch_size)
                     /\ pc' = "si_loop"
                     /\ UNCHANGED error
    /\ UNCHANGED << interp_files, interp_init, argv, visual_init,
                    visual_exists, visual_files, visual_touched,
                    model, batch,
                    batch_out, all_predictions, log, filenames, visualized,
                    returned >>
    /\ UNCHANGED << maskVars, distVars >>

\* for batch in eval_dataloader: the next batch, its features and examples
\* (examples[i] raises IndexError past the end of the list).
SiFetch ==
    /\ pc = "si_loop"
    /\ loader # << >>
    /\ batch' = Head(loader)
    /\ loader' = Tail(loader)
    /\ IF \E k \in 1..Len(Head(loader)) : Head(loader)[k] >= Len(examples)
       THEN Fails("IndexError")
       ELSE pc' = "si_predict" /\ UNCHANGED error
    /\ UNCHANGED << args, interp_exists, interp_files, interp_init, argv, visual_init,
                    visual_exists, visual_files, visual_touched,
                    model, examples, features,
                    batch_out, all_predictions, log, filenames, visualized,
                    returned >>
    /\ UNCHANGED << maskVars, distVars >>

BatchFeatures == [ k \in 1..Len(batch) |-> features[batch[k] + 1] ]
BatchExamples == [ k \in 1..Len(batch) |-> examples[batch[k] + 1] ]

\* predict_and_run_shap: the batch-size assertion, the forward pass, the
\* predictions (a dictionary keyed by the examples' qas_id, one prelim result
\* per example) and run_shap's (1, n) attribution tensor.
SiPredict ==
    /\ pc = "si_predict"
    /\ IF Len(batch) # 1
       THEN Fails("AssertionError: batch size") /\ UNCHANGED << log, batch_out >>
       ELSE /\ log' = Append(log, << "query", batch[1] >>)
            /\ batch_out' =
                 [ predictions    |-> [ q \in { BatchExamples[k].qas_id : k \in 1..Len(batch) }
                                          |-> AnswerOf(q) ],
                   prelim_results |-> [ k \in 1..Len(batch) |->
                                         [ start_index |-> 0, end_index |-> 0 ] ],
                   importances    |-> << [ j \in 1..(Len(BatchFeatures[1].tokens) + model.extra)
                                            |-> 0 ] >> ]
            /\ pc' = "si_dump"
            /\ UNCHANGED error
    /\ UNCHANGED << args, interp_exists, interp_files, interp_init, argv, visual_init,
                    visual_exists, visual_files, visual_touched,
                    model, examples, features, loader, batch,
                    all_predictions, filenames, visualized, returned >>
    /\ UNCHANGED << maskVars, distVars >>

\* The forward pass raises (a framework exception); nothing catches it.
SiPredictRaises ==
    /\ pc = "si_predict"
    /\ Len(batch) = 1
    /\ log' = Append(log, << "query", batch[1] >>)
    /\ Fails("RuntimeError")
    /\ UNCHANGED << args, interp_exists, interp_files, interp_init, argv, visual_init,
                    visual_exists, visual_files, visual_touched,
                    model, examples, features, loader, batch,
                    batch_out, all_predictions, filenames, visualized, returned >>
    /\ UNCHANGED << maskVars, distVars >>

\* dump_shap_info(...), then all_predictions.append(batch_predictions)
SiDump ==
    /\ pc = "si_dump"
    /\ LET n == ZipLen(BatchExamples, BatchFeatures, batch_out.prelim_results,
                       batch_out.importances)
       IN  /\ interp_files' = dump_shap_info(interp_files, BatchExamples, BatchFeatures,
                                           batch_out.predictions,
                                           batch_out.prelim_results,
                                           batch_out.importances, n)
           /\ log' = log \o [ k \in 1..n |-> << "write", batch[k] >> ]
    /\ all_predictions' = Append(all_predictions, batch_out.predictions)
    /\ pc' = "si_loop"
    /\ UNCHANGED << args, error, interp_exists, interp_init, argv, visual_init,
                    visual_exists, visual_files, visual_touched,
                    model, examples, features, loader, batch,
                    batch_out, filenames, visualized, returned >>
    /\ UNCHANGED << maskVars, distVars >>

\* After the loop: merge_predictions, hotpot_evaluate, print and return; main
\* logs the result and returns it.
SiEvaluate ==
    /\ pc = "si_loop"
    /\ loader = << >>
    /\ LET merged == merge_predictions(all_predictions)
       IN  /\ log' = Append(log, << "eval", Len(all_predictions) >>)
           /\ returned' = << hotpot_evaluate(examples, merged) >>
    /\ pc' = "done"
    /\ UNCHANGED << args, error, interp_exists, interp_files, interp_init, argv, visual_init,
                    visual_exists, visual_files, visual_touched,
                    model, examples, features, loader, batch,
                    batch_out, all_predictions, filenames, visualized >>
    /\ UNCHANGED << maskVars, distVars >>

Next ==
    \/ ParseArgs
    \/ MainDoVis
    \/ MainLoadCheckpoint
    \/ IgListdir
    \/ IgMkdir
    \/ IgVisualize
    \/ IgReturn
    \/ SiLoad
    \/ SiFetch
    \/ SiPredict
    \/ SiPredictRaises
    \/ SiDump
    \/ SiEvaluate

Spec == Init /\ [][Next]_vars

\* ------------------------------------------------------------------ run_shap
\* The batch run_shap is called on: one row of n_tokens input ids, and the
\* tokenizer's mask token.
MaskInit ==
    /\ pc = "run_shap"
    /\ MainIdle
    /\ DistIdle
    /\ mask_token_id \in Vocab
    /\ n_tokens \in 1..MaxLen
    /\ full_input_ids \in { << row >> : row \in [ 1..n_tokens -> Vocab ] }
    /\ probe_calls = << >>

\* Lines 82-91: input_ids is popped from the inputs, the position ids are
\* fixed and score_fn is bound; run_shap_attribution starts.
run_shap ==
    /\ pc = "run_shap"
    /\ pc' = "run_shap_attribution"
    /\ UNCHANGED << maskVars, distVars, args, argv, error, interp_exists,
                    interp_files, interp_init, visual_init, visual_exists,
                    visual_files, visual_touched, model, examples,
                    features, loader, batch, batch_out, all_predictions, log,
                    filenames, visualized, returned >>

\* run_shap_attribution(args, len(tokens), score_fn) calls score_fn on a 0/1
\* mask over the len(tokens) positions; predict_with_mask builds the input
\* and calls model.probe_forward.
score_fn ==
    /\ pc = "run_shap_attribution"
    /\ Len(probe_calls) < MaxCalls
    /\ \E active_mask \in [ 1..n_tokens -> { 0, 1 } ] :
         probe_calls' = Append(probe_calls,
            [ active_mask |-> active_mask,
              input_ids   |-> predict_with_mask(active_mask, mask_token_id,
                                              full_input_ids) ])
    /\ UNCHANGED << mask_token_id, full_input_ids, n_tokens, distVars, mainVars >>

\* run_shap_attribution returns; run_shap returns the attribution tensor.
run_shap_return ==
    /\ pc = "run_shap_attribution"
    /\ pc' = "run_shap_done"
    /\ UNCHANGED << maskVars, distVars, args, argv, error, interp_exists,
                    interp_files, interp_init, visual_init, visual_exists,
                    visual_files, visual_touched, model, examples,
                    features, loader, batch, batch_out, all_predictions, log,
                    filenames, visualized, returned >>

MaskNext ==
    \/ run_shap
    \/ score_fn
    \/ run_shap_return

MaskSpec == MaskInit /\ [][MaskNext]_vars

\* ------------------------------------------------- main, distributed launch
Procs == 1..NProcs

\* Every process of the launch runs main() with its own --local_rank.
DistInit ==
    /\ pc = "distributed"
    /\ MainIdle
    /\ MaskIdle
    /\ local_rank \in [ Procs -> 0..MaxRank ]
    /\ ppc = [ p \in Procs |-> "start" ]
    /\ at_barrier = {}

\* if args.local_rank not in [-1, 0]
WaitsForFirstProcess(rank) == rank \notin { -1, 0 }

\* Lines 259-283: the arguments, the device, init_process_group, logging.
DistSetup(p) ==
    /\ ppc[p] = "start"
    /\ ppc' = [ ppc EXCEPT ![p] = "setup" ]
    /\ UNCHANGED << local_rank, at_barrier, maskVars, mainVars >>

\* Lines 286-288: a process whose local_rank is not -1 or 0 enters
\* torch.distributed.barrier(); the others go on.
DistBarrier(p) ==
    /\ ppc[p] = "setup"
    /\ IF WaitsForFirstProcess(local_rank[p])
       THEN /\ ppc' = [ ppc EXCEPT ![p] = "barrier" ]
            /\ at_barrier' = at_barrier \cup { p }
       ELSE /\ ppc' = [ ppc EXCEPT ![p] = "load" ]
            /\ UNCHANGED at_barrier
    /\ UNCHANGED << local_rank, maskVars, mainVars >>

\* torch.distributed.barrier() returns in every process once every process
\* of the group has entered it.
BarrierReturns ==
    /\ at_barrier = Procs
    /\ ppc' = [ p \in Procs |-> IF p \in at_barrier THEN "load" ELSE ppc[p] ]
    /\ at_barrier' = {}
    /\ UNCHANGED << local_rank, maskVars, mainVars >>

\* Lines 290-293: config and tokenizer are loaded, the seed set.
DistLoad(p) ==
    /\ ppc[p] = "load"
    /\ ppc' = [ ppc EXCEPT ![p] = "branch" ]
    /\ UNCHANGED << local_rank, at_barrier, maskVars, mainVars >>

\* Lines 295-311: ig_analyze, or the checkpoint and shap_interp; neither
\* calls a barrier (load_and_cache_examples is called with evaluate=True).
DistRun(p) ==
    /\ ppc[p] = "branch"
    /\ ppc' = [ ppc EXCEPT ![p] = "done" ]
    /\ UNCHANGED << local_rank, at_barrier, maskVars, mainVars >>

DistNext ==
    \/ \E p \in Procs : DistSetup(p)
    \/ \E p \in Procs : DistBarrier(p)
    \/ BarrierReturns
    \/ \E p \in Procs : DistLoad(p)
    \/ \E p \in Procs : DistRun(p)

DistSpec == DistInit /\ [][DistNext]_vars

\* Every process keeps running while it can take a step, and a barrier that
\* every process has entered returns.
DistFairness ==
    /\ \A p \in Procs :
          WF_vars(DistSetup(p) \/ DistBarrier(p) \/ DistLoad(p) \/ DistRun(p))
    /\ WF_vars(BarrierReturns)

FairDistSpec == DistInit /\ [][DistNext]_vars /\ DistFairness

\* ===================================================================== claims
\* The name '<example_index>-<qas_id>.bin', the index in decimal.
ArtifactName(feature) ==
    IntToStr(feature.example_index) \o << "-" >> \o feature.qas_id
        \o << ".", "b", "i", "n" >>

\* The integer before the first '-' of a file name.
NumericPrefix(name) == StrToInt(SplitDashFirst(name))

ArtifactKeys == { "example", "feature", "prediction", "prelim_result", "attribution" }

InInterp == pc \in { "si_load", "si_loop", "si_predict", "si_dump" }
InVis    == pc \in { "ig_listdir", "ig_mkdir", "ig_loop" }

\* interp_dir holds what it held when the run started.
InterpUntouched ==
    /\ DOMAIN interp_files = interp_init
    /\ \A f \in interp_init : interp_files[f] = PriorContent

\* C2: every example shap_interp has processed (the j-th batch is the j-th
\* example) has a file '<example_index>-<qas_id>.bin' in interp_dir whose
\* record holds exactly the keys example, feature, prediction, prelim_result
\* and attribution; its prediction is that batch's prediction for the
\* example's own qas_id and its attribution has at most len(feature.tokens)
\* entries.
C2_ArtifactPerExample ==
    \A j \in 1..Len(all_predictions) :
        LET name == ArtifactName(features[j])
        IN  /\ interp_exists
            /\ name \in DOMAIN interp_files
            /\ DOMAIN interp_files[name] = ArtifactKeys
            /\ interp_files[name].example = examples[j]
            /\ interp_files[name].feature = features[j]
            /\ interp_files[name].prediction = all_predictions[j][examples[j].qas_id]
            /\ Len(interp_files[name].attribution) <= Len(features[j].tokens)

\* C2 witness: two examples are dumped, and run_shap's tensor for the second
\* was longer than the feature's tokens.
C2_Witness ==
    /\ pc = "si_loop"
    /\ Len(all_predictions) = 2
    /\ Len(batch_out.importances[1]) > Len(features[2].tokens)
    /\ examples[1].qas_id # examples[2].qas_id

\* C3: whatever batch size the command line configured, shap_interp runs
\* with eval_batch_size 1: every batch of the loader and every batch handed
\* to predict_and_run_shap holds exactly one example, and the batch-size
\* assertion never fails.
C3_SingleExampleBatches ==
    /\ error # "AssertionError: batch size"
    /\ pc \in { "si_loop", "si_predict", "si_dump" } =>
          /\ args.eval_batch_size = 1
          /\ \A b \in 1..Len(loader) : Len(loader[b]) = 1
    /\ pc \in { "si_predict", "si_dump" } => Len(batch) = 1

\* C3 witness: a batch size above 1 was configured, the dataset has several
\* examples, and a batch is in predict_and_run_shap.
C3_Witness ==
    /\ argv.eval_batch_size > 1
    /\ Len(features) >= 2
    /\ pc = "si_dump"

\* C4: with --do_vis the run is ig_analyze only: the checkpoint is never
\* loaded, the model never queried, interp_dir never written; without it the
\* checkpoint is loaded, shap_interp runs and its result is what main
\* returns, and visual_dir is never touched.
C4_ModeSelection ==
    /\ argv.do_vis =>
          /\ model = NoModel
          /\ log = << >>
          /\ InterpUntouched
          /\ ~InInterp
          /\ returned \in { << >>, << NoneValue >> }
    /\ ~argv.do_vis =>
          /\ ~visual_touched
          /\ visual_exists = visual_init.exists
          /\ visual_files = visual_init.files
          /\ visualized = << >>
          /\ ~InVis
          /\ pc \notin { "start", "branch" } => model \in Checkpoints
          /\ pc = "done" =>
                returned = << hotpot_evaluate(examples, merge_predictions(all_predictions)) >>

\* C4 witness: a --do_vis run that visualized two files has ended.
C4_Witness ==
    /\ argv.do_vis
    /\ pc = "done"
    /\ Len(visualized) >= 2

\* C5: when the dataset has a number of examples different from its number
\* of features, shap_interp stops on its assertion: the model is queried for
\* no example, no file is written to interp_dir, nothing is evaluated or
\* returned.
C5_AssertionStopsRun ==
    Len(examples) # Len(features) =>
        /\ pc = "failed"
        /\ error = "AssertionError: one to one"
        /\ log = << >>
        /\ InterpUntouched
        /\ all_predictions = << >>
        /\ returned = << >>

\* C5 witness: a dataset with an example of two features was loaded.
C5_Witness ==
    /\ Len(features) > Len(examples)
    /\ Len(examples) >= 1
    /\ error = "AssertionError: one to one"

\* What a run over n features does, in order: query 0, write 0, query 1,
\* write 1, ..., then the evaluation.
ExpectedEvent(p, n) ==
    IF p <= 2 * n
    THEN IF p % 2 = 1 THEN << "query", (p - 1) \div 2 >>
                      ELSE << "write", (p \div 2) - 1 >>
    ELSE << "eval", n >>

\* C6: the examples are visited in dataset order, the artifact of the k-th
\* is written before the model is queried for the (k+1)-th, the evaluation
\* comes after every example is dumped; and every artifact written so far
\* is on disk, also when the run has failed on a later example.
C6_DumpedInOrder ==
    /\ Len(log) <= 2 * Len(features) + 1
    /\ \A p \in 1..Len(log) : log[p] = ExpectedEvent(p, Len(features))
    /\ \A p \in 1..Len(log) :
          log[p][1] = "write" =>
             ArtifactName(features[log[p][2] + 1]) \in DOMAIN interp_files

\* C6 witness: the run failed in the forward pass of the second example,
\* the artifact of the first being written.
C6_Witness ==
    /\ error = "RuntimeError"
    /\ Len(log) = 3
    /\ ArtifactName(features[1]) \in DOMAIN interp_files

\* C7: ig_analyze's list holds every file of interp_dir exactly once, in
\* ascending order of the integer before the first '-'; files are
\* visualized in that order, none before _mkdir_f has left visual_dir
\* existing and empty, whatever it was before; a finished run has
\* visualized them all.
C7_VisualizedInNumericOrder ==
    /\ pc \in { "ig_mkdir", "ig_loop" } \/ (argv.do_vis /\ pc = "done") =>
          /\ Len(filenames) = Cardinality(DOMAIN interp_files)
          /\ Range(filenames) = DOMAIN interp_files
          /\ \A i, j \in 1..Len(filenames) :
                i < j => NumericPrefix(filenames[i]) <= NumericPrefix(filenames[j])
    /\ Len(visualized) <= Len(filenames)
    /\ \A i \in 1..Len(visualized) : visualized[i] = filenames[i]
    /\ visualized # << >> => visual_touched
    /\ pc = "ig_loop" =>
          /\ visual_exists
          /\ visual_files = Range(visualized)
    /\ argv.do_vis /\ pc = "done" => visualized = filenames

\* C7 witness: a finished run that visualized '2-a.bin' before '10-a.bin',
\* visual_dir having had a file in it before.
C7_Witness ==
    /\ pc = "done"
    /\ visual_init.files # {}
    /\ \E i, j \in 1..Len(visualized) :
          /\ i < j
          /\ visualized[i] = << "2", "-", "a", ".", "b", "i", "n" >>
          /\ visualized[j] = << "1", "0", "-", "a", ".", "b", "i", "n" >>

C1_MaskedInput ==
    \A k \in 1..Len(probe_calls) :
        LET call == probe_calls[k]
        IN  /\ Len(call.input_ids) = Len(full_input_ids)
            /\ Len(call.input_ids[1]) = Len(full_input_ids[1])
            /\ \A c \in 1..Len(full_input_ids[1]) :
                  /\ call.active_mask[c] = 1 =>
                        call.input_ids[1][c] = full_input_ids[1][c]
                  /\ call.active_mask[c] # 1 =>
                        call.input_ids[1][c] = mask_token_id

\* C1 witness: a call whose mask keeps one token and hides another, neither
\* being the mask token itself.
C1_Witness ==
    \E k \in 1..Len(probe_calls) :
        \E c, d \in 1..n_tokens :
            /\ probe_calls[k].active_mask[c] = 1
            /\ probe_calls[k].active_mask[d] = 0
            /\ full_input_ids[1][c] # mask_token_id
            /\ full_input_ids[1][d] # mask_token_id

\* C8: every process that waits at the barrier before loading config and
\* tokenizer is released and goes on to finish main.
C8_WaitingProcessFinishes ==
    \A p \in Procs : (ppc[p] = "barrier") ~> (ppc[p] = "done")

====
